---- MODULE Spec2Model ----
(***************************************************************************)
(* Model of streamlit_app.py (AI Copywriting Agent front-end).             *)
(*                                                                         *)
(* The script is re-executed top to bottom on every user interaction.  A   *)
(* button reads True only in the rerun that its own press triggered, so    *)
(* every action below is one complete run of main() with at most one       *)
(* pressed button.  st.session_state (agent, copy_history,                 *)
(* brand_guidelines) survives between runs; everything else is rebuilt.    *)
(*                                                                         *)
(* Optional values (Python None) are sequences of length 0 or 1.           *)
(* compliance_score is kept in whole percent (0.8 -> 80); the external     *)
(* agent is a nondeterministic choice of returning a result or raising.    *)
(***************************************************************************)
EXTENDS Integers, Sequences, FiniteSets, TLC

VARIABLES
    agent,             \* st.session_state.agent: <<>> or <<handle>>
    copy_history,      \* st.session_state.copy_history
    brand_guidelines,  \* st.session_state.brand_guidelines: <<>> or <<g>>
    agents_built,      \* number of MultiModalCopyAgent objects constructed
    screen,            \* what the last run rendered
    last,              \* the interaction that triggered the last run
    calls,             \* agent.generate_copy invocations of the last run
    files_read,        \* file.read() invocations of the last run
    reads              \* what st.button returned for clear / confirm

vars == <<agent, copy_history, brand_guidelines, agents_built, screen, last,
          calls, files_read, reads>>

----------------------------------------------------------------------------
(* Bounds of the model *)

MaxHistory == 3
MaxLongHistory == 11
MaxAgents == 2

(* Program constant: the slice copy_history[-10:] *)
RecentLimit == 10

----------------------------------------------------------------------------
(* Input domains *)

None == <<>>
Some(x) == <<x>>

Whitespace == {" ", "\n"}

Texts == { <<>>, <<" ">>, <<"\n", " ">>, <<"a">>, <<" ", "a", " ">> }

Uploads == { <<>>, <<"a.txt", "b.png">> }

BrandNames == {"YourBrand", "Acme"}

ToneLists == { <<"Professional", "Friendly">> }

Forms == [brand_name : BrandNames, selected_tones : ToneLists]

Results == { [word_count |-> 10, compliance_score |-> 80],
             [word_count |-> 25, compliance_score |-> 60] }

Outcomes == {"return", "raise"}

NoForm == [brand_name |-> "", selected_tones |-> <<>>]
NoResult == [word_count |-> 0, compliance_score |-> 0]

----------------------------------------------------------------------------
(* Pure helpers *)

RECURSIVE LStrip(_)
LStrip(t) ==
    IF t = <<>> THEN <<>>
    ELSE IF Head(t) \in Whitespace THEN LStrip(Tail(t)) ELSE t

RECURSIVE RStrip(_)
RStrip(t) ==
    IF t = <<>> THEN <<>>
    ELSE IF t[Len(t)] \in Whitespace THEN RStrip(SubSeq(t, 1, Len(t) - 1))
    ELSE t

Strip(t) == RStrip(LStrip(t))

Reversed(s) == [i \in 1..Len(s) |-> s[Len(s) + 1 - i]]

LastN(s, n) == IF Len(s) <= n THEN s ELSE SubSeq(s, Len(s) - n + 1, Len(s))

RECURSIVE SumCompliance(_)
SumCompliance(h) ==
    IF h = <<>> THEN 0 ELSE Head(h).compliance_score + SumCompliance(Tail(h))

RECURSIVE SumWords(_)
SumWords(h) ==
    IF h = <<>> THEN 0 ELSE Head(h).word_count + SumWords(Tail(h))

(* Python's format rounding of num/den to an integer (ties to even) *)
RoundHalfEven(num, den) ==
    LET q == num \div den
        r == num % den
    IN  IF 2 * r < den THEN q
        ELSE IF 2 * r > den THEN q + 1
        ELSE IF q % 2 = 0 THEN q ELSE q + 1

----------------------------------------------------------------------------
(* Session state and the constructors of the external framework *)

BrandGuidelines(form) ==
    [brand_name |-> form.brand_name, tone_of_voice |-> form.selected_tones]

MultiModalCopyAgent(g, n) == [id |-> n, guidelines |-> g]

(* Slip: the existing handle is kept, only the guidelines are replaced *)
initialize_agent_KeepHandle(s, g) ==
    IF s.agent = None
    THEN [s EXCEPT !.agent = Some(MultiModalCopyAgent(g, s.agents_built + 1)),
                   !.agents_built = s.agents_built + 1,
                   !.brand_guidelines = Some(g)]
    ELSE [s EXCEPT !.brand_guidelines = Some(g)]

(* Slip: re-initialising also resets the history *)
initialize_agent_ResetHistory(s, g) ==
    [s EXCEPT !.agent = Some(MultiModalCopyAgent(g, s.agents_built + 1)),
              !.agents_built = s.agents_built + 1,
              !.brand_guidelines = Some(g),
              !.copy_history = <<>>]

initialize_agent(s, g) ==
    [s EXCEPT !.agent = Some(MultiModalCopyAgent(g, s.agents_built + 1)),
              !.agents_built = s.agents_built + 1,
              !.brand_guidelines = Some(g)]

----------------------------------------------------------------------------
(* One run of the script.  A run record carries the session state and what *)
(* the run has rendered and invoked so far.                                *)

(* st.button(label): True only in the run triggered by pressing it *)
button(pressed, label) == pressed = label

NewRun(a, h, g, n) ==
    [agent |-> a, copy_history |-> h, brand_guidelines |-> g,
     agents_built |-> n,
     messages |-> <<>>, tabs |-> FALSE, history_tab |-> None,
     analytics_tab |-> None, export_data |-> <<>>,
     confirm_shown |-> FALSE, guidelines_export |-> None,
     calls |-> <<>>, files_read |-> 0,
     clear_read |-> FALSE, confirm_read |-> FALSE, rerun |-> FALSE]

(* Slip: the emptiness test without strip() *)
generate_copy_NoStrip(s, text_input, uploaded_files, outcome, result) ==
    IF text_input = <<>>
    THEN [s EXCEPT !.messages = Append(@, "error_validation")]
    ELSE
      LET request == [main_content |-> text_input, files |-> uploaded_files]
          tried   == [s EXCEPT !.files_read = @ + Len(uploaded_files),
                               !.calls = Append(@, [handle |-> s.agent,
                                                    request |-> request])]
      IN  IF s.agent = None \/ outcome = "raise"
          THEN [tried EXCEPT !.messages = Append(@, "error_generating")]
          ELSE [tried EXCEPT !.copy_history = Append(@, result),
                             !.messages = Append(@, "copy_generated")]

(* Slip: insert(0, result) instead of append(result) *)
generate_copy_Prepend(s, text_input, uploaded_files, outcome, result) ==
    IF Strip(text_input) = <<>>
    THEN [s EXCEPT !.messages = Append(@, "error_validation")]
    ELSE
      LET request == [main_content |-> text_input, files |-> uploaded_files]
          tried   == [s EXCEPT !.files_read = @ + Len(uploaded_files),
                               !.calls = Append(@, [handle |-> s.agent,
                                                    request |-> request])]
      IN  IF s.agent = None \/ outcome = "raise"
          THEN [tried EXCEPT !.messages = Append(@, "error_generating")]
          ELSE [tried EXCEPT !.copy_history = <<result>> \o @,
                             !.messages = Append(@, "copy_generated")]

(* Slip: one retry after a failure, and a placeholder entry stored *)
generate_copy_Retry(s, text_input, uploaded_files, outcome, result) ==
    IF Strip(text_input) = <<>>
    THEN [s EXCEPT !.messages = Append(@, "error_validation")]
    ELSE
      LET request == [main_content |-> text_input, files |-> uploaded_files]
          call    == [handle |-> s.agent, request |-> request]
          tried   == [s EXCEPT !.files_read = @ + Len(uploaded_files),
                               !.calls = Append(@, call)]
      IN  IF s.agent = None \/ outcome = "raise"
          THEN [tried EXCEPT !.calls = Append(@, call),
                             !.copy_history = Append(@, NoResult),
                             !.messages = Append(@, "error_generating")]
          ELSE [tried EXCEPT !.copy_history = Append(@, result),
                             !.messages = Append(@, "copy_generated")]

generate_copy(s, text_input, uploaded_files, outcome, result) ==
    IF Strip(text_input) = <<>>
    THEN [s EXCEPT !.messages = Append(@, "error_validation")]
    ELSE
      LET request == [main_content |-> text_input, files |-> uploaded_files]
          tried   == [s EXCEPT !.files_read = @ + Len(uploaded_files),
                               !.calls = Append(@, [handle |-> s.agent,
                                                    request |-> request])]
      IN  IF s.agent = None \/ outcome = "raise"
          THEN [tried EXCEPT !.messages = Append(@, "error_generating")]
          ELSE [tried EXCEPT !.copy_history = Append(@, result),
                             !.messages = Append(@, "copy_generated")]

(* Slip: the averages taken over the displayed slice only *)
copy_history_interface_Recent(h) ==
    IF h = <<>>
    THEN [info |-> TRUE, metrics |-> None, list |-> <<>>]
    ELSE
      LET shown  == LastN(h, RecentLimit)
          recent == Reversed(shown)
      IN  [info |-> FALSE,
           metrics |-> Some(
              [total |-> Len(h),
               avg_compliance |->
                   RoundHalfEven(10 * SumCompliance(shown), Len(shown)),
               avg_words |-> RoundHalfEven(SumWords(shown), Len(shown))]),
           list |-> [i \in 1..Len(recent) |->
                       [label |-> Len(h) - (i - 1), copy |-> recent[i]]]]

(* Slip: the label counted within the displayed slice *)
copy_history_interface_SliceLabel(h) ==
    IF h = <<>>
    THEN [info |-> TRUE, metrics |-> None, list |-> <<>>]
    ELSE
      LET recent == Reversed(LastN(h, RecentLimit))
      IN  [info |-> FALSE,
           metrics |-> Some(
              [total |-> Len(h),
               avg_compliance |-> RoundHalfEven(10 * SumCompliance(h), Len(h)),
               avg_words |-> RoundHalfEven(SumWords(h), Len(h))]),
           list |-> [i \in 1..Len(recent) |->
                       [label |-> Len(recent) - (i - 1), copy |-> recent[i]]]]

copy_history_interface(h) ==
    IF h = <<>>
    THEN [info |-> TRUE, metrics |-> None, list |-> <<>>]
    ELSE
      LET recent == Reversed(LastN(h, RecentLimit))
      IN  [info |-> FALSE,
           metrics |-> Some(
              [total |-> Len(h),
               \* f"{avg:.1%}": tenths of a percent
               avg_compliance |-> RoundHalfEven(10 * SumCompliance(h), Len(h)),
               \* f"{avg:.0f}"
               avg_words |-> RoundHalfEven(SumWords(h), Len(h))]),
           list |-> [i \in 1..Len(recent) |->
                       [label |-> Len(h) - (i - 1), copy |-> recent[i]]]]

analytics_interface(s) ==
    IF s.copy_history = <<>>
    THEN [info |-> TRUE, metrics_of |-> None, trend |-> <<>>]
    ELSE [info |-> FALSE,
          metrics_of |-> s.agent,
          trend |-> IF Len(s.copy_history) > 1
                    THEN [i \in 1..Len(s.copy_history) |->
                            [number |-> i,
                             compliance |-> s.copy_history[i].compliance_score,
                             words |-> s.copy_history[i].word_count]]
                    ELSE <<>>]

(* Slip: the clear button alone empties the history *)
settings_interface_NoConfirm(s, pressed) ==
    LET s1 == IF button(pressed, "export")
              THEN IF s.copy_history # <<>>
                   THEN [s EXCEPT !.export_data = s.copy_history]
                   ELSE [s EXCEPT !.messages = Append(@, "no_history_to_export")]
              ELSE s
        clear_read == button(pressed, "clear")
        s2 == [s1 EXCEPT !.clear_read = clear_read]
    IN  IF clear_read
        THEN [s2 EXCEPT !.copy_history = <<>>,
                        !.messages = Append(@, "history_cleared"),
                        !.rerun = TRUE]
        ELSE [s2 EXCEPT !.guidelines_export = s2.brand_guidelines]

settings_interface(s, pressed) ==
    LET s1 == IF button(pressed, "export")
              THEN IF s.copy_history # <<>>
                   THEN [s EXCEPT !.export_data = s.copy_history]
                   ELSE [s EXCEPT !.messages = Append(@, "no_history_to_export")]
              ELSE s
        clear_read == button(pressed, "clear")
        \* the confirm button exists, and is read, only inside the branch
        confirm_read == clear_read /\ button(pressed, "confirm")
        s2 == [s1 EXCEPT !.clear_read = clear_read,
                         !.confirm_shown = clear_read,
                         !.confirm_read = confirm_read]
    IN  IF confirm_read
        THEN [s2 EXCEPT !.copy_history = <<>>,
                        !.messages = Append(@, "history_cleared"),
                        !.rerun = TRUE]
        ELSE [s2 EXCEPT !.guidelines_export = s2.brand_guidelines]

(* Slip: the tabs rendered without the check of the agent *)
main_run_NoGuard(s, pressed, form, text_input, uploaded_files, outcome, result) ==
    LET s1 == IF button(pressed, "save")
              THEN LET t == initialize_agent(s, BrandGuidelines(form))
                   IN  [t EXCEPT !.messages = Append(@, "guidelines_saved")]
              ELSE s
        s2 == IF button(pressed, "generate")
              THEN generate_copy(s1, text_input, uploaded_files,
                                 outcome, result)
              ELSE s1
        s3 == [s2 EXCEPT !.tabs = TRUE,
                         !.history_tab =
                             Some(copy_history_interface(s2.copy_history)),
                         !.analytics_tab = Some(analytics_interface(s2))]
    IN  settings_interface(s3, pressed)

main_run(s, pressed, form, text_input, uploaded_files, outcome, result) ==
    LET s1 == IF button(pressed, "save")
              THEN LET t == initialize_agent(s, BrandGuidelines(form))
                   IN  [t EXCEPT !.messages = Append(@, "guidelines_saved")]
              ELSE s
    IN  IF s1.agent = None
        THEN [s1 EXCEPT !.messages = Append(@, "warning_configure")]
        ELSE
          LET s2 == IF button(pressed, "generate")
                    THEN generate_copy(s1, text_input, uploaded_files,
                                       outcome, result)
                    ELSE s1
              s3 == [s2 EXCEPT !.tabs = TRUE,
                               !.history_tab =
                                   Some(copy_history_interface(s2.copy_history)),
                               !.analytics_tab = Some(analytics_interface(s2))]
          IN  settings_interface(s3, pressed)

(* st.rerun() abandons the run and executes the script again, no button    *)
(* pressed, on the session state as it then is.                            *)
main(s, pressed, form, text_input, uploaded_files, outcome, result) ==
    LET r == main_run(s, pressed, form, text_input, uploaded_files,
                      outcome, result)
    IN  IF r.rerun
        THEN LET again == main_run(NewRun(r.agent, r.copy_history,
                                          r.brand_guidelines, r.agents_built),
                                   "none", form, text_input, uploaded_files,
                                   outcome, result)
             IN  [again EXCEPT !.calls = r.calls,
                               !.files_read = r.files_read,
                               !.clear_read = r.clear_read,
                               !.confirm_read = r.confirm_read]
        ELSE r

----------------------------------------------------------------------------
(* State machine *)

Screen(r) ==
    [messages |-> r.messages, tabs |-> r.tabs, history_tab |-> r.history_tab,
     analytics_tab |-> r.analytics_tab, export_data |-> r.export_data,
     confirm_shown |-> r.confirm_shown,
     guidelines_export |-> r.guidelines_export]

Interaction(pressed, form, text_input, uploaded_files, outcome, result) ==
    [pressed |-> pressed, form |-> form, text_input |-> text_input,
     uploaded_files |-> uploaded_files, outcome |-> outcome,
     result |-> result]

Run(pressed, form, text_input, uploaded_files, outcome, result) ==
    LET r == main(NewRun(agent, copy_history, brand_guidelines, agents_built),
                  pressed, form, text_input, uploaded_files, outcome, result)
    IN  /\ agent' = r.agent
        /\ copy_history' = r.copy_history
        /\ brand_guidelines' = r.brand_guidelines
        /\ agents_built' = r.agents_built
        /\ screen' = Screen(r)
        /\ last' = Interaction(pressed, form, text_input, uploaded_files,
                               outcome, result)
        /\ calls' = r.calls
        /\ files_read' = r.files_read
        /\ reads' = [clear |-> r.clear_read, confirm |-> r.confirm_read]

Idle(pressed) == Run(pressed, NoForm, <<>>, <<>>, "return", NoResult)

(* First execution of the script in a new session: lines 60-66, then main *)
Init ==
    LET r == main(NewRun(None, <<>>, None, 0), "none", NoForm, <<>>, <<>>,
                  "return", NoResult)
    IN  /\ agent = r.agent
        /\ copy_history = r.copy_history
        /\ brand_guidelines = r.brand_guidelines
        /\ agents_built = r.agents_built
        /\ screen = Screen(r)
        /\ last = Interaction("load", NoForm, <<>>, <<>>, "return", NoResult)
        /\ calls = r.calls
        /\ files_read = r.files_read
        /\ reads = [clear |-> r.clear_read, confirm |-> r.confirm_read]

(* Any widget change other than a button press *)
Rerender == Idle("none")

PressSave(form) ==
    /\ agents_built < MaxAgents
    /\ Run("save", form, <<>>, <<>>, "return", NoResult)

PressGenerate(text_input, uploaded_files, outcome, result, cap) ==
    /\ screen.tabs
    /\ Len(copy_history) < cap
    /\ Run("generate", NoForm, text_input, uploaded_files, outcome,
           IF Strip(text_input) = <<>> \/ outcome = "raise"
           THEN NoResult ELSE result)

PressExport ==
    /\ screen.tabs
    /\ Idle("export")

PressClear ==
    /\ screen.tabs
    /\ Idle("clear")

PressConfirm ==
    /\ screen.confirm_shown
    /\ Idle("confirm")

Next ==
    \/ Rerender
    \/ \E f \in Forms : PressSave(f)
    \/ \E t \in Texts, u \in Uploads, o \in Outcomes, r \in Results :
          PressGenerate(t, u, o, r, MaxHistory)
    \/ PressExport
    \/ PressClear
    \/ PressConfirm

Spec == Init /\ [][Next]_vars

(* Long sessions: one save, then successful generations only *)
SaveFirst ==
    /\ agent = None
    /\ PressSave([brand_name |-> "YourBrand",
                  selected_tones |-> <<"Professional", "Friendly">>])

GenerateMore ==
    \E r \in Results :
        PressGenerate(<<"a">>, <<>>, "return", r, MaxLongHistory)

NextLong ==
    \/ Rerender
    \/ SaveFirst
    \/ GenerateMore

SpecLong == Init /\ [][NextLong]_vars

----------------------------------------------------------------------------
(* Vocabulary of the properties *)

IsBlank(t) == \A i \in 1..Len(t) : t[i] \in Whitespace

ShownIn(sc, m) == \E i \in 1..Len(sc.messages) : sc.messages[i] = m

IsPrefix(a, b) ==
    /\ Len(a) <= Len(b)
    /\ \A i \in 1..Len(a) : a[i] = b[i]

RECURSIVE TotalUpTo(_, _, _)
TotalUpTo(h, n, field) ==
    IF n = 0 THEN 0 ELSE h[n][field] + TotalUpTo(h, n - 1, field)

Abs(x) == IF x < 0 THEN 0 - x ELSE x

(* d is num/den rounded to the nearest integer *)
IsNearest(d, num, den) == 2 * Abs(d * den - num) <= den

Min(a, b) == IF a < b THEN a ELSE b

----------------------------------------------------------------------------
(* C1: with a non-empty history, pressing 'Clear History' and then         *)
(* 'Confirm Clear History' leaves copy_history empty.                      *)
C1_ClearThenConfirmEmpties ==
    [][(/\ last.pressed = "clear"
        /\ screen.confirm_shown
        /\ copy_history # <<>>
        /\ last'.pressed = "confirm")
       => copy_history' = <<>>]_vars

(* C2: a run triggered by 'Clear History' leaves copy_history as it was,   *)
(* and copy_history is never emptied in a run in which the confirm button  *)
(* does not read as pressed.                                               *)
C2_SingleClearKeepsHistory ==
    [][/\ last'.pressed = "clear" => copy_history' = copy_history
       /\ (copy_history # <<>> /\ copy_history' = <<>>) => reads'.confirm]_vars

C2_Witness ==
    /\ last.pressed = "clear"
    /\ reads.clear
    /\ ~reads.confirm
    /\ screen.confirm_shown
    /\ Len(copy_history) >= 2

(* C3: a 'Generate Copy' press with empty or whitespace-only main content  *)
(* shows the validation error, calls no agent, reads no file and leaves    *)
(* copy_history, agent and brand_guidelines unchanged.                     *)
C3_BlankContentRejected ==
    [][(last'.pressed = "generate" /\ IsBlank(last'.text_input))
       => /\ ShownIn(screen', "error_validation")
          /\ calls' = <<>>
          /\ files_read' = 0
          /\ copy_history' = copy_history
          /\ agent' = agent
          /\ brand_guidelines' = brand_guidelines]_vars

C3_Witness ==
    /\ last.pressed = "generate"
    /\ last.text_input # <<>>
    /\ IsBlank(last.text_input)
    /\ last.uploaded_files # <<>>
    /\ ShownIn(screen, "error_validation")
    /\ copy_history # <<>>

(* C4: a 'Generate Copy' press with non-blank content on which the agent   *)
(* returns a result grows copy_history by exactly that result at the end,  *)
(* all earlier entries keeping their positions.                            *)
C4_SuccessAppendsLast ==
    [][(/\ last'.pressed = "generate"
        /\ ~IsBlank(last'.text_input)
        /\ last'.outcome = "return")
       => /\ Len(copy_history') = Len(copy_history) + 1
          /\ \A i \in 1..Len(copy_history) : copy_history'[i] = copy_history[i]
          /\ copy_history'[Len(copy_history')] = last'.result]_vars

C4_Witness ==
    /\ last.pressed = "generate"
    /\ last.outcome = "return"
    /\ ShownIn(screen, "copy_generated")
    /\ Len(copy_history) >= 2
    /\ copy_history[Len(copy_history)] = last.result
    /\ copy_history[1] # last.result

(* C5: when agent.generate_copy raises, an error message is shown, the     *)
(* agent was invoked exactly once in that run, and copy_history, agent and *)
(* brand_guidelines are as before the press.                               *)
C5_AgentFailureLeavesState ==
    [][(/\ last'.pressed = "generate"
        /\ ~IsBlank(last'.text_input)
        /\ last'.outcome = "raise")
       => /\ Len(calls') = 1
          /\ ShownIn(screen', "error_generating")
          /\ ~ShownIn(screen', "copy_generated")
          /\ copy_history' = copy_history
          /\ agent' = agent
          /\ brand_guidelines' = brand_guidelines]_vars

C5_Witness ==
    /\ last.pressed = "generate"
    /\ last.outcome = "raise"
    /\ Len(calls) = 1
    /\ ShownIn(screen, "error_generating")
    /\ copy_history # <<>>

(* C6: every 'Save Brand Guidelines' press installs a newly constructed    *)
(* agent built from the submitted guidelines and makes them the active     *)
(* guidelines; no other run changes either; every generate_copy call is    *)
(* made on the current handle, which carries the active guidelines.        *)
C6_SaveReplacesAgent ==
    [][/\ last'.pressed = "save"
          => /\ agent' # None
             /\ agent' # agent
             /\ agent'[1].id > agents_built
             /\ agent'[1].guidelines.brand_name = last'.form.brand_name
             /\ agent'[1].guidelines.tone_of_voice = last'.form.selected_tones
             /\ brand_guidelines' = Some(agent'[1].guidelines)
       /\ last'.pressed # "save"
          => /\ agent' = agent
             /\ brand_guidelines' = brand_guidelines
       /\ \A i \in 1..Len(calls') :
             /\ agent' # None
             /\ calls'[i].handle = agent'
             /\ Some(calls'[i].handle[1].guidelines) = brand_guidelines']_vars

C6_Witness ==
    /\ last.pressed = "generate"
    /\ calls # <<>>
    /\ agents_built >= 2
    /\ calls[1].handle[1].id = agents_built
    /\ calls[1].handle[1].guidelines.brand_name = "Acme"

(* C7: in every step the previous copy_history is a prefix of the new one, *)
(* unless the run is the confirmed clear, after which it is empty; saving  *)
(* brand guidelines leaves copy_history unchanged.                         *)
C7_HistoryAppendOnly ==
    [][/\ \/ IsPrefix(copy_history, copy_history')
          \/ (reads'.confirm /\ copy_history' = <<>>)
       /\ last'.pressed = "save" => copy_history' = copy_history]_vars

C7_Witness ==
    /\ last.pressed = "save"
    /\ agents_built >= 2
    /\ Len(copy_history) >= 2

(* C8: on every render of the Copy History tab the total is the length of  *)
(* copy_history and the two averages are the means over all of its         *)
(* entries, in the display precision; with empty history no average is     *)
(* computed.                                                               *)
C8_AveragesOverFullHistory ==
    screen.tabs =>
      LET tab == screen.history_tab[1]
          n   == Len(copy_history)
      IN  IF n = 0
          THEN tab.info /\ tab.metrics = None
          ELSE /\ tab.metrics # None
               /\ tab.metrics[1].total = n
               /\ IsNearest(tab.metrics[1].avg_compliance,
                            10 * TotalUpTo(copy_history, n, "compliance_score"),
                            n)
               /\ IsNearest(tab.metrics[1].avg_words,
                            TotalUpTo(copy_history, n, "word_count"), n)

C8_Witness ==
    /\ screen.tabs
    /\ Len(copy_history) > RecentLimit
    /\ copy_history[1] # copy_history[2]
    /\ screen.history_tab[1].metrics # None
    /\ screen.history_tab[1].metrics[1].total = Len(copy_history)

(* C9: the Copy History list shows the last min(10, n) entries, newest     *)
(* first, and the entry labelled 'Copy #k' is copy_history[k].             *)
C9_RecentListLabels ==
    screen.tabs =>
      LET list == screen.history_tab[1].list
          n    == Len(copy_history)
      IN  /\ Len(list) = Min(RecentLimit, n)
          /\ \A j \in 1..Len(list) :
                /\ list[j].label = n + 1 - j
                /\ list[j].copy = copy_history[list[j].label]

C9_Witness ==
    /\ screen.tabs
    /\ Len(copy_history) > RecentLimit
    /\ Len(screen.history_tab[1].list) = RecentLimit
    /\ screen.history_tab[1].list[RecentLimit].label
          = Len(copy_history) + 1 - RecentLimit
    /\ copy_history[1] # copy_history[Len(copy_history)]

(* C10: the agent is unset exactly when the brand guidelines are unset;    *)
(* while unset the tabs are not rendered and copy_history is empty; no     *)
(* generate_copy call is made on an unset handle.                          *)
C10_UnsetTogether ==
    /\ (agent = None) <=> (brand_guidelines = None)
    /\ agent = None
          => /\ ~screen.tabs
             /\ screen.history_tab = None
             /\ screen.analytics_tab = None
             /\ ~screen.confirm_shown
             /\ copy_history = <<>>
    /\ \A i \in 1..Len(calls) : calls[i].handle # None

C10_Witness ==
    /\ agent = None
    /\ brand_guidelines = None
    /\ last.pressed = "none"
    /\ ShownIn(screen, "warning_configure")
    /\ ~screen.tabs

====
